---- MODULE Spec2Model ----
(***************************************************************************)
(* Model of rust-gemini-llm-client/src/lib.rs: generate_content, the       *)
(* streaming Gemini client.  One call is a state machine whose steps are   *)
(* the synchronous runs of the async fn between its await points           *)
(* (send().await, response.text().await, stream.next().await).             *)
(*                                                                         *)
(* Text is modelled as a sequence of symbols.  A symbol is a whitespace    *)
(* character, one of the JSON punctuation characters, the member key       *)
(* "candidates":, a value token standing for one concrete JSON value of    *)
(* that member, or a byte that is not valid UTF-8.                         *)
(***************************************************************************)
EXTENDS Integers, Sequences, FiniteSets, TLC

\* Longest chunk stream the upstream delivers in the model.
MaxChunks == 4
\* Longest decoded text fed to the cleaning chain in SpecClean.
MaxTextLen == 5
\* Longest chunk stream of each of the two concurrent calls in SpecTwo.
MaxTwoChunks == 2
\* Most requests the proxy serves one after the other in SpecProxy.
MaxProxyRequests == 2
\* Most invocations of process_message in SpecService.
MaxMessages == 3
\* Most requests the items service answers in SpecItems.
MaxItemRequests == 4
\* Most calls made on the MessagesArea in SpecArea.
MaxAreaSteps == 4
\* Most candidates of a response and most parts of a content in SpecExtract.
MaxCandidates == 2
MaxParts == 2

None == "None"

WS == " "
LBracket == "["
RBracket == "]"
Comma == ","
LBrace == "{"
RBrace == "}"
CandidatesKey == "candidates:"
InvalidByte == "0xFF"

(***************************************************************************)
(* Option<T> is a sequence of length 0 (None) or 1 (Some).                 *)
(***************************************************************************)
Some(x) == <<x>>
IsSome(o) == Len(o) = 1
Unwrap(o) == o[1]

Hel == <<"H", "e", "l">>
Lo == <<"l", "o">>
Hello == <<"H", "e", "l", "l", "o">>

\* ResponsePart { text: Option<String> }
TextPart(t) == [text |-> Some(t)]
NoTextPart == [text |-> <<>>]
\* Candidate { content: Option<ResponseContent { parts: Option<Vec<ResponsePart>> }> }
WithParts(ps) == [content |-> Some([parts |-> Some(ps)])]
NoParts == [content |-> Some([parts |-> <<>>])]
NoContent == [content |-> <<>>]

\* Values of well-typed candidates members.
ValueTokens == {"vHel", "vLo", "vX", "vMulti"}
\* A candidates member holding a string where the list is expected.
StringValue == "vStr"

\* The Vec<Candidate> each value token deserializes to.
CandidatesOf(v) ==
    CASE v = "vHel" -> << WithParts(<< TextPart(Hel) >>) >>
      [] v = "vLo" -> << WithParts(<< TextPart(Lo) >>) >>
      [] v = "vX" -> << WithParts(<< TextPart(<<"X">>) >>) >>
      [] v = "vMulti" -> << WithParts(<< TextPart(<<"a">>), NoTextPart, TextPart(<<"b">>) >>),
                            NoContent,
                            NoParts,
                            WithParts(<< TextPart(<<"c">>) >>) >>

\* The JSON text of one response object {"candidates": v}.
ObjectText(v) == <<LBrace, CandidatesKey, v, RBrace>>

(***************************************************************************)
(* The chunks the upstream may deliver.  Together they cover the array     *)
(* framing of the upstream format, an object with absent levels, an object *)
(* split over two chunks, and a chunk that is not valid UTF-8.             *)
(***************************************************************************)
OpenArray == <<LBracket>>
CloseArray == <<RBracket>>
FirstChunk == <<LBracket>> \o ObjectText("vLo") \o <<WS>>
HelChunk == ObjectText("vHel") \o <<Comma>>
LoChunk == ObjectText("vLo")
MultiChunk == <<Comma, WS>> \o ObjectText("vMulti") \o <<WS, RBracket, WS>>
HalfLeft == <<LBrace, CandidatesKey>>
HalfRight == <<"vX", RBrace>>
BadUtf8 == <<InvalidByte>> \o ObjectText("vLo")
WrongShape == ObjectText(StringValue)

Chunks == {OpenArray, CloseArray, FirstChunk, HelChunk, LoChunk, MultiChunk,
           HalfLeft, HalfRight, BadUtf8, WrongShape}

\* The stream of the end-to-end scenario.
HelloStream == <<OpenArray, HelChunk, LoChunk, CloseArray>>

(***************************************************************************)
(* String::from_utf8(chunk.to_vec())                                       *)
(***************************************************************************)
\* Variant: invalid bytes are dropped and the rest is decoded.
ValidByte(b) == b # InvalidByte
FromUtf8DroppingInvalid(chunk) == [ok |-> TRUE, text |-> SelectSeq(chunk, ValidByte)]

FromUtf8(chunk) ==
    IF \E i \in 1..Len(chunk) : chunk[i] = InvalidByte
    THEN [ok |-> FALSE, text |-> <<>>]
    ELSE [ok |-> TRUE, text |-> chunk]

(***************************************************************************)
(* str::trim_start_matches(c) and str::trim_end_matches(c): every prefix   *)
(* (suffix) that matches is removed, repeatedly.                           *)
(***************************************************************************)
\* Variant: only the first matching prefix is removed (strip_prefix).
TrimStartMatchesOnce(s, c) ==
    IF s # <<>> /\ Head(s) = c THEN Tail(s) ELSE s

RECURSIVE TrimStartMatches(_, _)
TrimStartMatches(s, c) ==
    IF s # <<>> /\ Head(s) = c THEN TrimStartMatches(Tail(s), c) ELSE s

RECURSIVE TrimEndMatches(_, _)
TrimEndMatches(s, c) ==
    IF s # <<>> /\ s[Len(s)] = c THEN TrimEndMatches(SubSeq(s, 1, Len(s) - 1), c) ELSE s

\* str::trim(): leading and trailing whitespace removed.
Trim(s) == TrimEndMatches(TrimStartMatches(s, WS), WS)

\* Variant: the trailing comma is not stripped.
CleanKeepingTrailingComma(text) ==
    Trim(TrimEndMatches(TrimStartMatches(TrimStartMatches(Trim(text), LBracket), Comma),
        RBracket))

\* The cleaning chain of lines 120-127.
Clean(text) ==
    Trim(TrimEndMatches(TrimEndMatches(TrimStartMatches(TrimStartMatches(Trim(text),
        LBracket), Comma), RBracket), Comma))

(***************************************************************************)
(* serde_json::from_str::<GenerateContentResponse>: whitespace between     *)
(* tokens is insignificant; the text must be exactly one object, either    *)
(* empty or holding the candidates member with a well-typed value.         *)
(***************************************************************************)
NotWS(ch) == ch # WS

FromStr(s) ==
    LET toks == SelectSeq(s, NotWS) IN
    IF toks = <<LBrace, RBrace>>
    THEN [ok |-> TRUE, candidates |-> <<>>]
    ELSE IF /\ Len(toks) = 4
            /\ toks[1] = LBrace
            /\ toks[2] = CandidatesKey
            /\ toks[3] \in ValueTokens
            /\ toks[4] = RBrace
         THEN [ok |-> TRUE, candidates |-> Some(CandidatesOf(toks[3]))]
         ELSE [ok |-> FALSE, candidates |-> <<>>]

(***************************************************************************)
(* The extraction loops of lines 138-150, pushing onto the output buffer.  *)
(***************************************************************************)
\* Variant: the part loop ends at the first part without text.
RECURSIVE PushPartsUntilAbsent(_, _)
PushPartsUntilAbsent(out, parts) ==
    IF parts = <<>> \/ ~IsSome(Head(parts).text) THEN out
    ELSE PushPartsUntilAbsent(out \o Unwrap(Head(parts).text), Tail(parts))

RECURSIVE PushParts(_, _)
PushParts(out, parts) ==
    IF parts = <<>> THEN out
    ELSE PushParts(IF IsSome(Head(parts).text) THEN out \o Unwrap(Head(parts).text) ELSE out,
                   Tail(parts))

RECURSIVE PushCandidates(_, _)
PushCandidates(out, candidates) ==
    IF candidates = <<>> THEN out
    ELSE LET content == Head(candidates).content
             next == IF IsSome(content) /\ IsSome(Unwrap(content).parts)
                     THEN PushParts(out, Unwrap(Unwrap(content).parts))
                     ELSE out
         IN PushCandidates(next, Tail(candidates))

\* Variant: a chunk that is skipped also clears the buffer.
ProcessChunkClearingOnSkip(out, chunk) ==
    LET decoded == FromUtf8(chunk) IN
    IF ~decoded.ok THEN <<>>
    ELSE LET clean_text == Clean(decoded.text) IN
         IF clean_text = <<>> THEN out
         ELSE LET parsed == FromStr(clean_text) IN
              IF parsed.ok /\ IsSome(parsed.candidates)
              THEN PushCandidates(out, Unwrap(parsed.candidates))
              ELSE <<>>

\* One iteration of the while-let body (lines 114-152) on a delivered chunk.
ProcessChunk(out, chunk) ==
    LET decoded == FromUtf8(chunk) IN
    IF ~decoded.ok THEN out
    ELSE LET clean_text == Clean(decoded.text) IN
         IF clean_text = <<>> THEN out
         ELSE LET parsed == FromStr(clean_text) IN
              IF parsed.ok /\ IsSome(parsed.candidates)
              THEN PushCandidates(out, Unwrap(parsed.candidates))
              ELSE out

\* Variant: client errors count as success.
IsSuccessBelow500(st) == st >= 200 /\ st <= 499

\* StatusCode::is_success
IsSuccess(st) == st >= 200 /\ st <= 299

\* dotenv().ok(): a .env file sets the variable unless the process has it.
Dotenv(env, file) == IF env = None THEN file ELSE env

\* Variant: a missing variable defaults instead of failing.
ResolveKeyOrDefault(arg, env) ==
    [ok |-> TRUE, key |-> IF arg # None THEN arg ELSE env]

\* Variant: the environment is consulted before the argument.
ResolveKeyEnvFirst(arg, env) ==
    IF env # None THEN [ok |-> TRUE, key |-> env]
    ELSE IF arg # None THEN [ok |-> TRUE, key |-> arg]
    ELSE [ok |-> FALSE, key |-> None]

\* The match of lines 78-81.
ResolveKey(arg, env) ==
    IF arg # None THEN [ok |-> TRUE, key |-> arg]
    ELSE IF env # None THEN [ok |-> TRUE, key |-> env]
    ELSE [ok |-> FALSE, key |-> None]

(***************************************************************************)
(* State of one generate_content call and of its upstream.                 *)
(***************************************************************************)
VARIABLES
    api_key_opt,  \* the api_key_opt argument
    env_key,      \* GEMINI_API_KEY in the process environment
    pc,           \* "start", "send", "text", "stream" or "returned"
    url_key,      \* the key placed in the request URL
    requests,     \* HTTP requests issued so far
    upstream,     \* what the upstream connection has done
    status,       \* status of the response, 0 before it arrives
    body,         \* body the upstream sent with a non-2xx response
    received,     \* chunks yielded by stream.next() so far
    output,       \* the output buffer
    result,       \* what the call returned
    text,         \* SpecClean: a decoded chunk
    clean_text,   \* SpecClean: the cleaned fragment
    cleaned,      \* SpecClean: the cleaning chain has run
    fragment_step,        \* SpecClean: what lines 129-151 did with the fragment
    response,             \* SpecExtract: a parsed GenerateContentResponse
    buffer,               \* SpecExtract: the output buffer
    extracted,            \* SpecExtract: the extraction loops have run
    calls,                \* SpecTwo: the state of each of two concurrent calls
    proc,                 \* SpecTwo: the process environment and the .env file
    proxy,                \* SpecProxy: one proxy_gemini request of the extender
    server,               \* SpecServer: the docker server and its last connection
    is_processing,        \* GeminiService.is_processing
    api_key,              \* GeminiService.api_key
    conversation_history, \* GeminiService.conversation_history
    next_message_id,      \* GeminiService.next_message_id
    events,               \* events emitted by the GeminiService
    in_flight,            \* spawned API tasks that have not completed
    invocations,          \* process_message calls made so far
    items,                \* items service: the HashMap<u64, Item> behind the RwLock
    lock,                 \* items service: the client holding the write lock, or 0
    clients,              \* items service: the position of each client's request
    last_response,        \* items service: the response sent last
    created,              \* items service: the ids returned by create_item so far
    removed,              \* items service: the number of successful delete_item calls
    handled,              \* items service: the number of requests answered
    messages,             \* MessagesArea.messages
    tasks,                \* tasks spawned by the MessagesArea and not yet run
    next_uuid,            \* the number of message ids generated so far
    steps,                \* the number of calls made on the MessagesArea, and the last
    overflow_checks,      \* whether the build checks integer overflow
    panicked              \* whether a handler of the MessagesArea has panicked

callVars == <<api_key_opt, env_key, pc, url_key, requests, upstream, status, body,
              received, output, result>>
cleanVars == <<text, clean_text, cleaned, fragment_step>>
extractVars == <<response, buffer, extracted>>
twoVars == <<calls, proc>>
proxyVars == <<proxy>>
serverVars == <<server>>
serviceVars == <<is_processing, api_key, conversation_history, next_message_id, events,
                 in_flight, invocations>>

itemsVars == <<items, lock, clients, last_response, created, removed, handled>>
areaVars == <<messages, tasks, next_uuid, steps, overflow_checks, panicked>>

vars == <<callVars, cleanVars, extractVars, twoVars, proxyVars, serverVars, serviceVars, itemsVars, areaVars>>

\* Everything outside the single generate_content call.
otherVars == <<cleanVars, extractVars, twoVars, proxyVars, serverVars, serviceVars, itemsVars, areaVars>>


ArgKeys == {None, "argkey"}
EnvKeys == {None, "envkey"}
FileKeys == {None, "filekey"}
Statuses == {200, 401, 500}
Bodies == {"", "API key not valid"}

Pending == [tag |-> "Pending", value |-> <<>>, kind |-> None, status |-> 0, text |-> ""]
Ok(v) == [tag |-> "Ok", value |-> v, kind |-> None, status |-> 0, text |-> ""]
Err(k, st, t) == [tag |-> "Err", value |-> <<>>, kind |-> k, status |-> st, text |-> t]

(***************************************************************************)
(* The parts of the state a specification does not use stay as they are    *)
(* here.                                                                   *)
(***************************************************************************)
CallIdle ==
    /\ api_key_opt = None
    /\ env_key = None
    /\ pc = "start"
    /\ url_key = None
    /\ requests = 0
    /\ upstream = "idle"
    /\ status = 0
    /\ body = ""
    /\ received = <<>>
    /\ output = <<>>
    /\ result = Pending

CleanIdle ==
    /\ text = <<>>
    /\ clean_text = <<>>
    /\ cleaned = FALSE
    /\ fragment_step = "none"

ExtractIdle ==
    /\ response = [candidates |-> <<>>]
    /\ buffer = <<>>
    /\ extracted = FALSE

TwoIdle ==
    /\ calls = <<>>
    /\ proc = [env0 |-> None, env |-> None, file |-> None]

ProxyIdle == proxy = <<>>

ServerIdle == server = <<>>

ItemsIdle ==
    /\ items = <<>>
    /\ lock = 0
    /\ clients = <<>>
    /\ last_response = <<>>
    /\ created = <<>>
    /\ removed = 0
    /\ handled = 0

AreaIdle ==
    /\ messages = <<>>
    /\ tasks = <<>>
    /\ next_uuid = 0
    /\ steps = <<>>
    /\ overflow_checks = FALSE
    /\ panicked = FALSE

ServiceIdle ==
    /\ is_processing = FALSE
    /\ api_key = None
    /\ conversation_history = <<>>
    /\ next_message_id = 0
    /\ events = <<>>
    /\ in_flight = <<>>
    /\ invocations = 0

Init ==
    /\ api_key_opt \in ArgKeys
    /\ env_key \in EnvKeys
    /\ pc = "start"
    /\ url_key = None
    /\ requests = 0
    /\ upstream = "idle"
    /\ status = 0
    /\ body = ""
    /\ received = <<>>
    /\ output = <<>>
    /\ result = Pending
    /\ CleanIdle
    /\ ExtractIdle
    /\ TwoIdle
    /\ ProxyIdle
    /\ ServerIdle
    /\ ServiceIdle
    /\ ItemsIdle
    /\ AreaIdle

(***************************************************************************)
(* Lines 74-99, up to send().await: load .env, resolve the credential,     *)
(* build the URL and issue the request; env::var(..)? returns the error.   *)
(***************************************************************************)
Call(file) ==
    /\ pc = "start"
    /\ env_key' = Dotenv(env_key, file)
    /\ LET r == ResolveKey(api_key_opt, env_key') IN
       IF r.ok
       THEN /\ url_key' = r.key
            /\ requests' = requests + 1
            /\ upstream' = "requested"
            /\ pc' = "send"
            /\ result' = result
       ELSE /\ pc' = "returned"
            /\ result' = Err("NotPresent", 0, "")
            /\ UNCHANGED <<url_key, requests, upstream>>
    /\ UNCHANGED <<api_key_opt, status, body, received, output, otherVars>>

\* Variant: a failed send is attempted a second time.
SendFailsRetrying ==
    /\ pc = "send"
    /\ requests < 2
    /\ requests' = requests + 1
    /\ UNCHANGED <<api_key_opt, env_key, pc, url_key, upstream, status, body, received, output,
                   result, otherVars>>

\* Line 99: send().await fails and ? returns the transport error.
SendFails ==
    /\ pc = "send"
    /\ upstream' = "sendError"
    /\ pc' = "returned"
    /\ result' = Err("Transport", 0, "")
    /\ UNCHANGED <<api_key_opt, env_key, url_key, requests, status, body, received, output,
                   otherVars>>

(***************************************************************************)
(* Lines 99-110: the response arrives; a success status opens the byte     *)
(* stream with an empty output buffer, any other status goes on to read    *)
(* the body with response.text().await.                                    *)
(***************************************************************************)
ResponseArrives(st, b) ==
    /\ pc = "send"
    /\ status' = st
    /\ upstream' = "responded"
    /\ IF IsSuccess(st)
       THEN /\ pc' = "stream"
            /\ body' = body
       ELSE /\ pc' = "text"
            /\ body' = b
    /\ output' = <<>>
    /\ UNCHANGED <<api_key_opt, env_key, url_key, requests, received, result, otherVars>>

\* Lines 103-105: the body is read and the error is returned.
BodyRead ==
    /\ pc = "text"
    /\ upstream' = "bodyRead"
    /\ pc' = "returned"
    /\ result' = Err("RequestFailed", status, body)
    /\ UNCHANGED <<api_key_opt, env_key, url_key, requests, status, body, received, output,
                   otherVars>>

\* Lines 103-105: reading the body fails and unwrap_or_default gives "".
BodyReadFails ==
    /\ pc = "text"
    /\ upstream' = "bodyError"
    /\ pc' = "returned"
    /\ result' = Err("RequestFailed", status, "")
    /\ UNCHANGED <<api_key_opt, env_key, url_key, requests, status, body, received, output,
                   otherVars>>

\* Variant: a fragment that fails to parse returns the parse error.
StreamChunkStrict(c) ==
    /\ pc = "stream"
    /\ Len(received) < MaxChunks
    /\ received' = Append(received, c)
    /\ output' = ProcessChunk(output, c)
    /\ IF FromUtf8(c).ok /\ Clean(c) # <<>> /\ ~FromStr(Clean(c)).ok
       THEN pc' = "returned" /\ result' = Err("Parse", 0, "")
       ELSE pc' = pc /\ result' = result
    /\ UNCHANGED <<api_key_opt, env_key, url_key, requests, upstream, status, body, otherVars>>

\* Variant: a chunk is joined to the previous chunk when that one gave no text.
StreamChunkJoining(c) ==
    /\ pc = "stream"
    /\ Len(received) < MaxChunks
    /\ received' = Append(received, c)
    /\ output' = IF received # <<>>
                    /\ ProcessChunk(<<>>, received[Len(received)]) = <<>>
                    /\ ProcessChunk(<<>>, c) = <<>>
                 THEN ProcessChunk(output, received[Len(received)] \o c)
                 ELSE ProcessChunk(output, c)
    /\ UNCHANGED <<api_key_opt, env_key, pc, url_key, requests, upstream, status, body, result,
                   otherVars>>

\* Lines 113-152: stream.next() yields Some(Ok(chunk)).
StreamChunk(c) ==
    /\ pc = "stream"
    /\ Len(received) < MaxChunks
    /\ received' = Append(received, c)
    /\ output' = ProcessChunk(output, c)
    /\ UNCHANGED <<api_key_opt, env_key, pc, url_key, requests, upstream, status, body, result,
                   otherVars>>

\* Variant: a stream error sends the request again.
StreamErrorRetrying ==
    /\ pc = "stream"
    /\ requests < 2
    /\ upstream' = "requested"
    /\ pc' = "send"
    /\ requests' = requests + 1
    /\ received' = <<>>
    /\ output' = <<>>
    /\ UNCHANGED <<api_key_opt, env_key, url_key, status, body, result, otherVars>>

\* Variant: a stream error ends the loop and the partial buffer is returned.
StreamErrorSwallowed ==
    /\ pc = "stream"
    /\ upstream' = "streamError"
    /\ pc' = "returned"
    /\ result' = Ok(output)
    /\ UNCHANGED <<api_key_opt, env_key, url_key, requests, status, body, received, output,
                   otherVars>>

\* Line 114: stream.next() yields Some(Err(e)) and item? returns it.
StreamError ==
    /\ pc = "stream"
    /\ upstream' = "streamError"
    /\ pc' = "returned"
    /\ result' = Err("Transport", 0, "")
    /\ UNCHANGED <<api_key_opt, env_key, url_key, requests, status, body, received, output,
                   otherVars>>

\* Variant: at the end of the stream the call waits for a new response
\* instead of returning.
StreamEndReconnecting ==
    /\ pc = "stream"
    /\ upstream' = "requested"
    /\ pc' = "send"
    /\ UNCHANGED <<api_key_opt, env_key, url_key, requests, status, body, received, output,
                   result, otherVars>>

\* Lines 113 and 155: stream.next() yields None and the call returns Ok(output).
StreamEnd ==
    /\ pc = "stream"
    /\ upstream' = "closed"
    /\ pc' = "returned"
    /\ result' = Ok(output)
    /\ UNCHANGED <<api_key_opt, env_key, url_key, requests, status, body, received, output,
                   otherVars>>

Next ==
    \/ \E file \in FileKeys : Call(file)
    \/ SendFails
    \/ \E st \in Statuses, b \in Bodies : ResponseArrives(st, b)
    \/ BodyRead
    \/ BodyReadFails
    \/ \E c \in Chunks : StreamChunk(c)
    \/ StreamError
    \/ StreamEnd

Spec == Init /\ [][Next]_vars

(***************************************************************************)
(* SpecLive: one call whose upstream keeps acting until it has closed the  *)
(* connection or reported an error, and whose future is polled whenever    *)
(* the upstream has acted.  The stream is finite: at most MaxChunks chunks *)
(* of LiveChunks.                                                          *)
(***************************************************************************)
LiveChunks == {HelChunk, HalfLeft, BadUtf8}

NextLive ==
    \/ \E file \in FileKeys : Call(file)
    \/ SendFails
    \/ \E st \in Statuses, b \in Bodies : ResponseArrives(st, b)
    \/ BodyRead
    \/ BodyReadFails
    \/ \E c \in LiveChunks : StreamChunk(c)
    \/ StreamError
    \/ StreamEnd

SpecLive == Init /\ [][NextLive]_vars /\ WF_vars(NextLive)

(***************************************************************************)
(* SpecClean: the cleaning chain of lines 120-127 applied to every text    *)
(* over CleanAlphabet of at most MaxTextLen symbols.                       *)
(***************************************************************************)
CleanAlphabet == {WS, LBracket, RBracket, Comma, LBrace}

TextsUpTo(n) == UNION {[1..k -> CleanAlphabet] : k \in 0..n}

InitClean ==
    /\ CallIdle
    /\ text \in TextsUpTo(MaxTextLen)
    /\ clean_text = <<>>
    /\ cleaned = FALSE
    /\ fragment_step = "none"
    /\ ExtractIdle
    /\ TwoIdle
    /\ ProxyIdle
    /\ ServerIdle
    /\ ServiceIdle
    /\ ItemsIdle
    /\ AreaIdle

CleanText ==
    /\ ~cleaned
    /\ clean_text' = Clean(text)
    /\ cleaned' = TRUE
    /\ UNCHANGED <<callVars, text, fragment_step, extractVars, twoVars, proxyVars, serverVars,
                   serviceVars, itemsVars, areaVars>>

\* Variant: the emptiness test is missing and every fragment is parsed.
FragmentStepAlwaysParsing(fragment) == "parsed"

\* Lines 129-135: an empty fragment takes the continue, any other is handed
\* to serde_json::from_str.
FragmentStep(fragment) == IF fragment = <<>> THEN "skipped" ELSE "parsed"

\* Lines 129-151 on the cleaned fragment, with an empty buffer before it.
HandleFragment ==
    /\ cleaned
    /\ fragment_step = "none"
    /\ fragment_step' = FragmentStep(clean_text)
    /\ output' = IF fragment_step' = "parsed"
                    /\ FromStr(clean_text).ok
                    /\ IsSome(FromStr(clean_text).candidates)
                 THEN PushCandidates(output, Unwrap(FromStr(clean_text).candidates))
                 ELSE output
    /\ UNCHANGED <<api_key_opt, env_key, pc, url_key, requests, upstream, status, body,
                   received, result, text, clean_text, cleaned, extractVars, twoVars,
                   proxyVars, serverVars, serviceVars, itemsVars, areaVars>>

NextClean == CleanText \/ HandleFragment

SpecClean == InitClean /\ [][NextClean]_vars

(***************************************************************************)
(* SpecExtract: the extraction loops of lines 138-150 applied to every     *)
(* parsed response of at most MaxCandidates candidates with at most        *)
(* MaxParts parts each, on an empty and on a non-empty buffer.             *)
(***************************************************************************)
TextOptions == {<<>>, Some(<<"a">>), Some(<<"b">>)}
PartLists(n) == UNION {[1..k -> {[text |-> t] : t \in TextOptions}] : k \in 0..n}
ContentOptions ==
    {<<>>, Some([parts |-> <<>>])} \cup {Some([parts |-> Some(ps)]) : ps \in PartLists(MaxParts)}
CandidateLists(n) == UNION {[1..k -> {[content |-> c] : c \in ContentOptions}] : k \in 0..n}
Responses ==
    {[candidates |-> <<>>]} \cup {[candidates |-> Some(cs)] : cs \in CandidateLists(MaxCandidates)}

InitExtract ==
    /\ CallIdle
    /\ CleanIdle
    /\ response \in Responses
    /\ buffer \in {<<>>, <<"z">>}
    /\ extracted = FALSE
    /\ TwoIdle
    /\ ProxyIdle
    /\ ServerIdle
    /\ ServiceIdle
    /\ ItemsIdle
    /\ AreaIdle

\* Lines 138-150 on one parsed response.
ExtractText ==
    /\ ~extracted
    /\ buffer' = IF IsSome(response.candidates)
                 THEN PushCandidates(buffer, Unwrap(response.candidates))
                 ELSE buffer
    /\ extracted' = TRUE
    /\ UNCHANGED <<callVars, cleanVars, response, twoVars, proxyVars, serverVars, serviceVars, itemsVars, areaVars>>

NextExtract == ExtractText

SpecExtract == InitExtract /\ [][NextExtract]_vars

(***************************************************************************)
(* SpecTwo: two generate_content calls running concurrently in one         *)
(* process.  Each call has its own argument, connection, stream and output *)
(* buffer (the locals of the async fn); the process environment, which     *)
(* dotenv() writes and env::var reads, and the .env file are shared.  The  *)
(* steps of the two calls interleave at their await points.                *)
(***************************************************************************)
CallIds == {1, 2}
TwoChunks == {HelChunk, LoChunk, HalfLeft}

NewCall(arg) ==
    [arg |-> arg, pc |-> "start", url_key |-> None, requests |-> 0, upstream |-> "idle",
     status |-> 0, body |-> "", received |-> <<>>, output |-> <<>>, result |-> Pending]

InitTwo ==
    /\ CallIdle
    /\ CleanIdle
    /\ ExtractIdle
    /\ calls \in [CallIds -> {NewCall(a) : a \in ArgKeys}]
    /\ proc \in {[env0 |-> e, env |-> e, file |-> f] : e \in EnvKeys, f \in FileKeys}
    /\ ProxyIdle
    /\ ServerIdle
    /\ ServiceIdle
    /\ ItemsIdle
    /\ AreaIdle

twoOthers == <<callVars, cleanVars, extractVars, proxyVars, serverVars, serviceVars, itemsVars, areaVars>>

\* Lines 74-99 of call i.
TwoCall(i) ==
    /\ calls[i].pc = "start"
    /\ proc' = [proc EXCEPT !.env = Dotenv(proc.env, proc.file)]
    /\ LET r == ResolveKey(calls[i].arg, proc'.env) IN
       calls' = [calls EXCEPT ![i] =
                    IF r.ok
                    THEN [@ EXCEPT !.url_key = r.key, !.requests = @ + 1,
                                   !.upstream = "requested", !.pc = "send"]
                    ELSE [@ EXCEPT !.pc = "returned", !.result = Err("NotPresent", 0, "")]]
    /\ UNCHANGED twoOthers

\* Line 99 of call i: send().await fails.
TwoSendFails(i) ==
    /\ calls[i].pc = "send"
    /\ calls' = [calls EXCEPT ![i] =
                    [@ EXCEPT !.upstream = "sendError", !.pc = "returned",
                              !.result = Err("Transport", 0, "")]]
    /\ UNCHANGED <<proc, twoOthers>>

\* Lines 99-110 of call i: the response arrives.
TwoResponseArrives(i, st, b) ==
    /\ calls[i].pc = "send"
    /\ calls' = [calls EXCEPT ![i] =
                    IF IsSuccess(st)
                    THEN [@ EXCEPT !.status = st, !.upstream = "responded", !.pc = "stream",
                                   !.output = <<>>]
                    ELSE [@ EXCEPT !.status = st, !.upstream = "responded", !.pc = "text",
                                   !.body = b]]
    /\ UNCHANGED <<proc, twoOthers>>

\* Lines 103-105 of call i: the error body is read.
TwoBodyRead(i) ==
    /\ calls[i].pc = "text"
    /\ calls' = [calls EXCEPT ![i] =
                    [@ EXCEPT !.upstream = "bodyRead", !.pc = "returned",
                              !.result = Err("RequestFailed", calls[i].status, calls[i].body)]]
    /\ UNCHANGED <<proc, twoOthers>>

\* Lines 103-105 of call i: reading the error body fails.
TwoBodyReadFails(i) ==
    /\ calls[i].pc = "text"
    /\ calls' = [calls EXCEPT ![i] =
                    [@ EXCEPT !.upstream = "bodyError", !.pc = "returned",
                              !.result = Err("RequestFailed", calls[i].status, "")]]
    /\ UNCHANGED <<proc, twoOthers>>

\* Variant: the output buffer is one static buffer used by every call.
TwoStreamChunkSharedBuffer(i, c) ==
    /\ calls[i].pc = "stream"
    /\ Len(calls[i].received) < MaxTwoChunks
    /\ calls' = [j \in CallIds |->
                    IF j = i
                    THEN [calls[j] EXCEPT !.received = Append(@, c),
                                          !.output = ProcessChunk(calls[i].output, c)]
                    ELSE [calls[j] EXCEPT !.output = ProcessChunk(calls[i].output, c)]]
    /\ UNCHANGED <<proc, twoOthers>>

\* Lines 113-152 of call i: its stream yields a chunk.
TwoStreamChunk(i, c) ==
    /\ calls[i].pc = "stream"
    /\ Len(calls[i].received) < MaxTwoChunks
    /\ calls' = [calls EXCEPT ![i] =
                    [@ EXCEPT !.received = Append(@, c),
                              !.output = ProcessChunk(calls[i].output, c)]]
    /\ UNCHANGED <<proc, twoOthers>>

\* Line 114 of call i: its stream yields an error.
TwoStreamError(i) ==
    /\ calls[i].pc = "stream"
    /\ calls' = [calls EXCEPT ![i] =
                    [@ EXCEPT !.upstream = "streamError", !.pc = "returned",
                              !.result = Err("Transport", 0, "")]]
    /\ UNCHANGED <<proc, twoOthers>>

\* Lines 113 and 155 of call i: its stream ends.
TwoStreamEnd(i) ==
    /\ calls[i].pc = "stream"
    /\ calls' = [calls EXCEPT ![i] =
                    [@ EXCEPT !.upstream = "closed", !.pc = "returned",
                              !.result = Ok(calls[i].output)]]
    /\ UNCHANGED <<proc, twoOthers>>

NextTwo ==
    \E i \in CallIds :
        \/ TwoCall(i)
        \/ TwoSendFails(i)
        \/ \E st \in Statuses, b \in Bodies : TwoResponseArrives(i, st, b)
        \/ TwoBodyRead(i)
        \/ TwoBodyReadFails(i)
        \/ \E c \in TwoChunks : TwoStreamChunk(i, c)
        \/ TwoStreamError(i)
        \/ TwoStreamEnd(i)

SpecTwo == InitTwo /\ [][NextTwo]_vars

(***************************************************************************)
(* SpecProxy: the extender's POST /proxy handler, proxy_gemini.  A body is *)
(* a sequence of symbols; a JSON body is an object of one member, with or  *)
(* without white space between its tokens.                                 *)
(***************************************************************************)
ProxyStatuses == {200, 201, 400, 401, 500}

CompactJson == <<LBrace, CandidatesKey, "vHel", RBrace>>
SpacedJson == <<LBrace, WS, CandidatesKey, WS, "vHel", WS, RBrace, WS>>
OtherJson == <<LBrace, "error", "vX", RBrace>>
ErrorText == <<"Bad", WS, "Request">>
TruncatedJson == <<LBrace, CandidatesKey>>
ProxyBodies == {CompactJson, SpacedJson, OtherJson, ErrorText, TruncatedJson, <<>>}

\* response.json::<serde_json::Value>(): white space between tokens is
\* dropped; anything but a complete object fails to parse.
ParseJson(b) ==
    LET toks == SelectSeq(b, NotWS) IN
    IF Len(toks) = 4 /\ toks[1] = LBrace /\ toks[4] = RBrace
       /\ toks[2] \notin {LBrace, RBrace} /\ toks[3] \notin {LBrace, RBrace}
    THEN Some([key |-> toks[2], value |-> toks[3]])
    ELSE <<>>

\* HttpResponse::Ok().json(value): the compact serialization of the value.
ToJson(v) == <<LBrace, v.key, v.value, RBrace>>

Answer(st, b) == [status |-> st, body |-> b]
NoAnswer == Answer(0, <<>>)
ForwardFailed == <<"Failed to forward request">>
ParseFailed == <<"Failed to parse response">>

InitProxy ==
    /\ CallIdle
    /\ CleanIdle
    /\ ExtractIdle
    /\ TwoIdle
    /\ proxy = [pc |-> "idle", served |-> 0, forwarded |-> 0, up_status |-> 0,
                up_body |-> <<>>, up_read |-> "none", answer |-> NoAnswer]
    /\ ServerIdle
    /\ ServiceIdle
    /\ ItemsIdle
    /\ AreaIdle

proxyOthers == <<callVars, cleanVars, extractVars, twoVars, serverVars, serviceVars, itemsVars, areaVars>>

\* Lines 47-52: a request arrives; the Json extractor rejects a body that
\* is not a GeminiRequest before the handler runs.
ProxyRequest(valid) ==
    /\ proxy.pc \in {"idle", "answered"}
    /\ proxy.served < MaxProxyRequests
    /\ proxy' = IF valid
                THEN [proxy EXCEPT !.pc = "send", !.forwarded = 1, !.up_status = 0,
                                   !.up_body = <<>>, !.up_read = "none",
                                   !.answer = NoAnswer]
                ELSE [proxy EXCEPT !.pc = "answered", !.served = @ + 1, !.forwarded = 0,
                                   !.up_status = 0, !.up_body = <<>>, !.up_read = "none",
                                   !.answer = Answer(400, <<>>)]
    /\ UNCHANGED proxyOthers

\* Lines 54-62: send().await fails.
ProxySendFails ==
    /\ proxy.pc = "send"
    /\ proxy' = [proxy EXCEPT !.pc = "answered", !.served = @ + 1,
                              !.answer = Answer(500, ForwardFailed)]
    /\ UNCHANGED proxyOthers

\* Lines 54-64: the upstream response arrives.
ProxyResponseArrives(st, b) ==
    /\ proxy.pc = "send"
    /\ proxy' = [proxy EXCEPT !.pc = "body", !.up_status = st, !.up_body = b]
    /\ UNCHANGED proxyOthers

\* Variant: every upstream response is answered with 200 and its body.
ProxyBodyReadAlwaysOk ==
    /\ proxy.pc = "body"
    /\ proxy' = [proxy EXCEPT !.pc = "answered", !.served = @ + 1, !.up_read = "ok",
                              !.answer = Answer(200, proxy.up_body)]
    /\ UNCHANGED proxyOthers

\* Lines 64-75: the body of the upstream response is read.
ProxyBodyRead ==
    /\ proxy.pc = "body"
    /\ proxy' = [proxy EXCEPT !.pc = "answered", !.served = @ + 1, !.up_read = "ok",
                   !.answer =
                       IF IsSuccess(proxy.up_status)
                       THEN IF IsSome(ParseJson(proxy.up_body))
                            THEN Answer(200, ToJson(Unwrap(ParseJson(proxy.up_body))))
                            ELSE Answer(500, ParseFailed)
                       ELSE Answer(proxy.up_status, proxy.up_body)]
    /\ UNCHANGED proxyOthers

\* Lines 64-75: reading the body of the upstream response fails.
ProxyBodyReadFails ==
    /\ proxy.pc = "body"
    /\ proxy' = [proxy EXCEPT !.pc = "answered", !.served = @ + 1, !.up_read = "failed",
                   !.answer =
                       IF IsSuccess(proxy.up_status)
                       THEN Answer(500, ParseFailed)
                       ELSE Answer(proxy.up_status, <<>>)]
    /\ UNCHANGED proxyOthers

NextProxy ==
    \/ \E valid \in BOOLEAN : ProxyRequest(valid)
    \/ ProxySendFails
    \/ \E st \in ProxyStatuses, b \in ProxyBodies : ProxyResponseArrives(st, b)
    \/ ProxyBodyRead
    \/ ProxyBodyReadFails

SpecProxy == InitProxy /\ [][NextProxy]_vars

(***************************************************************************)
(* SpecServer: handle_connection of rust-docker-server.  A request is the  *)
(* sequence of the white-space separated parts of its first line; a part   *)
(* is a sequence of symbols, the symbols of a target being "/" and the     *)
(* segments between the slashes.  The file system is the set of the files  *)
(* under the static root, some of which cannot be opened.                  *)
(***************************************************************************)
Slash == "/"
DotDot == ".."
HealthTarget == <<Slash, "health">>
RootTarget == <<Slash>>
Targets == {RootTarget, HealthTarget, <<Slash, "health", Slash>>, <<Slash, Slash, "health">>,
            <<Slash, "health?full=1">>, <<Slash, "index.html">>, <<Slash, "app.js">>,
            <<Slash, DotDot, Slash, "secret">>, <<Slash, Slash>>}
Methods == {<<"GET">>, <<"POST">>}
Requests == {<<>>} \cup {<<m>> : m \in Methods}
            \cup {<<m, t, <<"HTTP/1.1">>>> : m \in Methods, t \in Targets}
StaticRoots == {"./static", "/srv/www"}
FileNames == {<<"index.html">>, <<"health">>, <<"app.js">>}

\* Lines 66-69: parts[1] of the first line, or "/" when there are fewer than
\* two parts.
RequestPath(parts) == IF Len(parts) >= 2 THEN parts[2] ELSE RootTarget

\* Line 82: path.contains("..").
ContainsDotDot(path) == \E k \in 1..Len(path) : path[k] = DotDot

\* Lines 79-90: the path under the static root that is looked up.
FilePath(path) == IF path = RootTarget THEN <<"index.html">>
                  ELSE TrimStartMatches(path, Slash)

\* Lines 98-103.
ContentType(file) ==
    CASE file = <<"index.html">> -> "text/html"
      [] file = <<"app.js">> -> "application/javascript"
      [] OTHER -> "application/octet-stream"

HttpAnswer(st, ctype, b) == [status |-> st, content_type |-> ctype, body |-> b]
NoResponse == HttpAnswer(0, "", <<>>)
HealthOk == HttpAnswer(200, "text/plain", <<"OK">>)
Forbidden == HttpAnswer(403, "text/plain", <<"Forbidden">>)
NotFound == HttpAnswer(404, "text/plain", <<"Not Found">>)
InternalError == HttpAnswer(500, "text/plain", <<"Internal Server Error">>)

\* Lines 93-120: the file at file_path is looked up and served.
ServeFile(srv, file) ==
    IF file \in srv.files
    THEN IF file \in srv.locked THEN InternalError
         ELSE HttpAnswer(200, ContentType(file), <<"contents">> \o file)
    ELSE NotFound

InitServer ==
    /\ CallIdle
    /\ CleanIdle
    /\ ExtractIdle
    /\ TwoIdle
    /\ ProxyIdle
    /\ \E root \in StaticRoots, fs \in SUBSET FileNames :
          \E lk \in SUBSET fs :
             server = [static_root |-> root, files |-> fs, locked |-> lk, handled |-> FALSE,
                       read |-> 0, request |-> <<>>, response |-> NoResponse,
                       lookups |-> <<>>]
    /\ ServiceIdle
    /\ ItemsIdle
    /\ AreaIdle

serverOthers == <<callVars, cleanVars, extractVars, twoVars, proxyVars, serviceVars, itemsVars, areaVars>>

\* Lines 60-64: the peer closes the connection without sending anything.
HandleEmptyRead ==
    /\ server' = [server EXCEPT !.handled = TRUE, !.read = 0, !.request = <<>>,
                                !.response = NoResponse, !.lookups = <<>>]
    /\ UNCHANGED serverOthers

\* Variant: the file under the static root is looked up first, and /health
\* is answered only when there is no such file.
HandleConnectionFilesFirst(parts) ==
    LET path == RequestPath(parts)
        file == FilePath(path)
        found == ServeFile(server, file)
    IN /\ server' = [server EXCEPT
              !.handled = TRUE, !.read = 1, !.request = parts,
              !.response = IF ContainsDotDot(path) THEN Forbidden
                           ELSE IF found = NotFound /\ path = HealthTarget THEN HealthOk
                           ELSE found,
              !.lookups = IF ContainsDotDot(path) THEN <<>>
                          ELSE << <<server.static_root>> \o file >>]
       /\ UNCHANGED serverOthers

\* Lines 59-123: one connection whose first read returns the request line.
HandleConnection(parts) ==
    LET path == RequestPath(parts)
        file == FilePath(path)
    IN /\ server' = [server EXCEPT
              !.handled = TRUE, !.read = 1, !.request = parts,
              !.response = IF path = HealthTarget THEN HealthOk
                           ELSE IF path # RootTarget /\ ContainsDotDot(path) THEN Forbidden
                           ELSE ServeFile(server, file),
              !.lookups = IF path = HealthTarget THEN <<>>
                          ELSE IF path # RootTarget /\ ContainsDotDot(path) THEN <<>>
                          ELSE << <<server.static_root>> \o file >>]
       /\ UNCHANGED serverOthers

NextServer ==
    \/ HandleEmptyRead
    \/ \E parts \in Requests : HandleConnection(parts)

SpecServer == InitServer /\ [][NextServer]_vars

(***************************************************************************)
(* SpecService: GeminiService of rust-gpui-app.  process_message and       *)
(* clear_history run on the entity; the task spawned by process_message    *)
(* runs the API call and then updates the entity.  in_flight holds the     *)
(* spawned tasks that have not updated the entity yet; invocations counts  *)
(* the calls of process_message.                                           *)
(***************************************************************************)
UserTexts == {"hi", "more"}
ReplyTexts == {"hello"}
NoKeyText == "No Gemini API key configured. Set GEMINI_API_KEY environment variable."
ApiErrorText == "API request failed"

Processing == [tag |-> "Processing", text |-> ""]
AssistantMessage(t) == [tag |-> "AssistantMessage", text |-> t]
Error(t) == [tag |-> "Error", text |-> t]

ChatMessage(id, role, content) == [id |-> id, role |-> role, content |-> content]
ApiResults == {[ok |-> TRUE, text |-> t] : t \in ReplyTexts}
              \cup {[ok |-> FALSE, text |-> ApiErrorText]}

InitService ==
    /\ CallIdle
    /\ CleanIdle
    /\ ExtractIdle
    /\ TwoIdle
    /\ ProxyIdle
    /\ ServerIdle
    /\ is_processing = FALSE
    /\ api_key \in {None, "envkey"}
    /\ conversation_history = <<>>
    /\ next_message_id = 0
    /\ events = <<>>
    /\ in_flight = <<>>
    /\ invocations = 0
    /\ ItemsIdle
    /\ AreaIdle

serviceOthers == <<callVars, cleanVars, extractVars, twoVars, proxyVars, serverVars,
                   itemsVars, areaVars>>

\* Variant: process_message without the is_processing check.
ProcessMessageUnguarded(t) ==
    /\ invocations < MaxMessages
    /\ invocations' = invocations + 1
    /\ IF api_key = None
       THEN /\ is_processing' = FALSE
            /\ events' = events \o <<Processing, Error(NoKeyText)>>
            /\ UNCHANGED <<conversation_history, next_message_id, in_flight>>
       ELSE /\ is_processing' = TRUE
            /\ events' = Append(events, Processing)
            /\ conversation_history' =
                   Append(conversation_history, ChatMessage(next_message_id, "User", t))
            /\ next_message_id' = next_message_id + 1
            /\ in_flight' = Append(in_flight, [messages |-> conversation_history'])
    /\ UNCHANGED <<api_key, serviceOthers>>

\* Lines 64-137: process_message(text), up to and including cx.spawn.
ProcessMessage(t) ==
    /\ invocations < MaxMessages
    /\ invocations' = invocations + 1
    /\ IF is_processing
       THEN UNCHANGED <<is_processing, events, conversation_history, next_message_id,
                        in_flight>>
       ELSE IF api_key = None
       THEN /\ is_processing' = FALSE
            /\ events' = events \o <<Processing, Error(NoKeyText)>>
            /\ UNCHANGED <<conversation_history, next_message_id, in_flight>>
       ELSE /\ is_processing' = TRUE
            /\ events' = Append(events, Processing)
            /\ conversation_history' =
                   Append(conversation_history, ChatMessage(next_message_id, "User", t))
            /\ next_message_id' = next_message_id + 1
            /\ in_flight' = Append(in_flight, [messages |-> conversation_history'])
    /\ UNCHANGED <<api_key, serviceOthers>>

RemoveAt(q, k) == SubSeq(q, 1, k - 1) \o SubSeq(q, k + 1, Len(q))

\* Variant: a failed API call ends the processing without an event.
TaskCompletesSilentOnError(k, r) ==
    /\ k \in 1..Len(in_flight)
    /\ in_flight' = RemoveAt(in_flight, k)
    /\ is_processing' = FALSE
    /\ IF r.ok
       THEN /\ conversation_history' =
                   Append(conversation_history,
                          ChatMessage(next_message_id, "Assistant", r.text))
            /\ next_message_id' = next_message_id + 1
            /\ events' = Append(events, AssistantMessage(r.text))
       ELSE UNCHANGED <<conversation_history, next_message_id, events>>
    /\ UNCHANGED <<api_key, invocations, serviceOthers>>

\* Lines 99-136: the API call of task k has ended with r and the task
\* updates the entity.
TaskCompletes(k, r) ==
    /\ k \in 1..Len(in_flight)
    /\ in_flight' = RemoveAt(in_flight, k)
    /\ is_processing' = FALSE
    /\ IF r.ok
       THEN /\ conversation_history' =
                   Append(conversation_history,
                          ChatMessage(next_message_id, "Assistant", r.text))
            /\ next_message_id' = next_message_id + 1
            /\ events' = Append(events, AssistantMessage(r.text))
       ELSE /\ events' = Append(events, Error(r.text))
            /\ UNCHANGED <<conversation_history, next_message_id>>
    /\ UNCHANGED <<api_key, invocations, serviceOthers>>

\* Variant: clear_history keeps the last message.
ClearHistoryKeepingLast ==
    /\ conversation_history' =
          IF conversation_history = <<>> THEN <<>>
          ELSE <<conversation_history[Len(conversation_history)]>>
    /\ UNCHANGED <<is_processing, api_key, next_message_id, events, in_flight, invocations,
                   serviceOthers>>

\* Lines 150-152: clear_history().
ClearHistory ==
    /\ conversation_history' = <<>>
    /\ UNCHANGED <<is_processing, api_key, next_message_id, events, in_flight, invocations,
                   serviceOthers>>

TaskDone == \E k \in 1..MaxMessages, r \in ApiResults : TaskCompletes(k, r)

NextService ==
    \/ \E t \in UserTexts : ProcessMessage(t)
    \/ TaskDone
    \/ ClearHistory

SpecService == InitService /\ [][NextService]_vars

\* The spawned task is detached and runs to its end: an API call that has
\* been started ends, and its task then updates the entity.
SpecServiceLive == InitService /\ [][NextService]_vars /\ WF_vars(TaskDone)

(***************************************************************************)
(* SpecItems: the items handlers of rust-simple-rest-api.  Every handler   *)
(* takes the lock of the Db first and holds it until it returns; there is  *)
(* no await in a handler body.  create_item is modelled in three steps     *)
(* (lock, compute the id, insert and answer) so that the steps of two      *)
(* requests can interleave wherever the lock allows it.                    *)
(***************************************************************************)
Clients == {1, 2}
ItemNames == {"a", "b"}
IdArgs == 1..3
NameOptions == {<<>>, Some("b")}
CompletedOptions == {<<>>, Some(TRUE), Some(FALSE)}
UpdatePayloads == {[name |-> n, completed |-> d] : n \in NameOptions, d \in CompletedOptions}

Item(id, name, completed) == [id |-> id, name |-> name, completed |-> completed]
NoPayload == [name |-> <<>>, completed |-> <<>>]
\* A request (operation, path id, payload) and the response it got.
HttpResponse(op, id, payload, st, b) ==
    [op |-> op, id |-> id, payload |-> payload, status |-> st, body |-> b]
IdleClient == [pc |-> "idle", name |-> "", id |-> 0]

MaxKey(m) == CHOOSE k \in DOMAIN m : \A j \in DOMAIN m : j <= k

\* Line 144: items.keys().max().unwrap_or(&0) + 1.
NewId(m) == IF DOMAIN m = {} THEN 1 ELSE MaxKey(m) + 1

\* HashMap::insert and HashMap::remove.
Insert(m, id, item) == [k \in DOMAIN m \cup {id} |-> IF k = id THEN item ELSE m[k]]
Remove(m, id) == [k \in DOMAIN m \ {id} |-> m[k]]

\* Lines 177-182: the fields the payload has replace the item's.
ApplyUpdate(item, payload) ==
    [item EXCEPT
        !.name = IF IsSome(payload.name) THEN Unwrap(payload.name) ELSE @,
        !.completed = IF IsSome(payload.completed) THEN Unwrap(payload.completed) ELSE @]

InitItems ==
    /\ CallIdle
    /\ CleanIdle
    /\ ExtractIdle
    /\ TwoIdle
    /\ ProxyIdle
    /\ ServerIdle
    /\ ServiceIdle
    /\ items = <<>>
    /\ lock = 0
    /\ clients = [c \in Clients |-> IdleClient]
    /\ last_response = HttpResponse("none", 0, NoPayload, 0, {})
    /\ created = <<>>
    /\ removed = 0
    /\ handled = 0
    /\ AreaIdle

itemsOthers == <<callVars, cleanVars, extractVars, twoVars, proxyVars, serverVars, serviceVars,
                 areaVars>>

\* Variant: create_item takes the read lock, which does not keep other
\* requests out.
CreateLockShared(c, name) ==
    /\ clients[c].pc = "idle"
    /\ lock = 0
    /\ handled < MaxItemRequests
    /\ clients' = [clients EXCEPT ![c] = [pc |-> "locked", name |-> name, id |-> 0]]
    /\ UNCHANGED <<items, lock, last_response, created, removed, handled, itemsOthers>>

\* Line 142: db.write() of the create request of client c.
CreateLock(c, name) ==
    /\ clients[c].pc = "idle"
    /\ lock = 0
    /\ handled < MaxItemRequests
    /\ lock' = c
    /\ clients' = [clients EXCEPT ![c] = [pc |-> "locked", name |-> name, id |-> 0]]
    /\ UNCHANGED <<items, last_response, created, removed, handled, itemsOthers>>

\* Line 144: the new id.
CreateComputeId(c) ==
    /\ clients[c].pc = "locked"
    /\ clients' = [clients EXCEPT ![c] = [@ EXCEPT !.pc = "computed", !.id = NewId(items)]]
    /\ UNCHANGED <<items, lock, last_response, created, removed, handled, itemsOthers>>

\* Lines 145-153: the item is inserted, the lock released and 201 answered.
CreateInsert(c) ==
    /\ clients[c].pc = "computed"
    /\ LET item == Item(clients[c].id, clients[c].name, FALSE) IN
       /\ items' = Insert(items, clients[c].id, item)
       /\ last_response' = HttpResponse("create", clients[c].id, NoPayload, 201, {item})
    /\ created' = Append(created, clients[c].id)
    /\ lock' = 0
    /\ clients' = [clients EXCEPT ![c] = IdleClient]
    /\ handled' = handled + 1
    /\ UNCHANGED <<removed, itemsOthers>>

\* Lines 130-137: list_items.
ListItems ==
    /\ lock = 0
    /\ handled < MaxItemRequests
    /\ last_response' = HttpResponse("list", 0, NoPayload, 200, {items[k] : k \in DOMAIN items})
    /\ handled' = handled + 1
    /\ UNCHANGED <<items, lock, clients, created, removed, itemsOthers>>

\* Lines 156-166: get_item.
GetItem(id) ==
    /\ lock = 0
    /\ handled < MaxItemRequests
    /\ last_response' = IF id \in DOMAIN items
                        THEN HttpResponse("get", id, NoPayload, 200, {items[id]})
                        ELSE HttpResponse("get", id, NoPayload, 404, {})
    /\ handled' = handled + 1
    /\ UNCHANGED <<items, lock, clients, created, removed, itemsOthers>>

\* Variant: update_item replaces the item by one built from the payload.
UpdateItemReplacing(id, payload) ==
    /\ lock = 0
    /\ handled < MaxItemRequests
    /\ IF id \in DOMAIN items
       THEN LET item == Item(id,
                             IF IsSome(payload.name) THEN Unwrap(payload.name) ELSE "",
                             IF IsSome(payload.completed) THEN Unwrap(payload.completed)
                             ELSE FALSE)
            IN /\ items' = [items EXCEPT ![id] = item]
               /\ last_response' = HttpResponse("update", id, payload, 200, {item})
       ELSE /\ last_response' = HttpResponse("update", id, payload, 404, {})
            /\ UNCHANGED items
    /\ handled' = handled + 1
    /\ UNCHANGED <<lock, clients, created, removed, itemsOthers>>

\* Lines 169-187: update_item.
UpdateItem(id, payload) ==
    /\ lock = 0
    /\ handled < MaxItemRequests
    /\ IF id \in DOMAIN items
       THEN /\ items' = [items EXCEPT ![id] = ApplyUpdate(@, payload)]
            /\ last_response' = HttpResponse("update", id, payload, 200, {items'[id]})
       ELSE /\ last_response' = HttpResponse("update", id, payload, 404, {})
            /\ UNCHANGED items
    /\ handled' = handled + 1
    /\ UNCHANGED <<lock, clients, created, removed, itemsOthers>>

\* Variant: delete_item answers 204 whether or not the id is stored.
DeleteItemAlwaysNoContent(id) ==
    /\ lock = 0
    /\ handled < MaxItemRequests
    /\ items' = Remove(items, id)
    /\ removed' = IF id \in DOMAIN items THEN removed + 1 ELSE removed
    /\ last_response' = HttpResponse("delete", id, NoPayload, 204, {})
    /\ handled' = handled + 1
    /\ UNCHANGED <<lock, clients, created, itemsOthers>>

\* Lines 190-197: delete_item.
DeleteItem(id) ==
    /\ lock = 0
    /\ handled < MaxItemRequests
    /\ IF id \in DOMAIN items
       THEN /\ items' = Remove(items, id)
            /\ removed' = removed + 1
            /\ last_response' = HttpResponse("delete", id, NoPayload, 204, {})
       ELSE /\ last_response' = HttpResponse("delete", id, NoPayload, 404, {})
            /\ UNCHANGED <<items, removed>>
    /\ handled' = handled + 1
    /\ UNCHANGED <<lock, clients, created, itemsOthers>>

NextItems ==
    \/ \E c \in Clients, name \in ItemNames : CreateLock(c, name)
    \/ \E c \in Clients : CreateComputeId(c)
    \/ \E c \in Clients : CreateInsert(c)
    \/ ListItems
    \/ \E id \in IdArgs : GetItem(id)
    \/ \E id \in IdArgs, payload \in UpdatePayloads : UpdateItem(id, payload)
    \/ \E id \in IdArgs : DeleteItem(id)

SpecItems == InitItems /\ [][NextItems]_vars

(***************************************************************************)
(* SpecArea: MessagesArea of rust-gpui-app.  Message ids are UUIDs, here   *)
(* the numbers 1, 2, ... in the order of generation.  A task spawned with  *)
(* cx.spawn is queued on the foreground executor; a gpui Task whose handle *)
(* is dropped is cancelled, and the executor drops a cancelled task        *)
(* without polling it.  overflow_checks tells a debug build, where i32     *)
(* addition panics on overflow, from a release build, where it wraps.      *)
(***************************************************************************)
MaxI32 == 2147483647
MinI32 == (-MaxI32) - 1
Directions == {-2, -1, 0, 1, 2, MaxI32, MinI32}
AreaTexts == {"hi"}
EditTexts == {"edited"}

AreaMessage(id, is_user, is_thinking, content) ==
    [id |-> id, is_user |-> is_user, is_thinking |-> is_thinking, content |-> content,
     branch_index |-> 1, total_branches |-> 1]
UserMessage(id, content) == AreaMessage(id, TRUE, FALSE, <<content>>)
AssistantReply(id, content) == AreaMessage(id, FALSE, FALSE, <<"AI Response to: ", content>>)
ThinkingMessage(id) == AreaMessage(id, FALSE, TRUE, <<>>)

\* A task spawned by line 245, its handle still held.
SpawnedTask(thinking_id, user_message) ==
    [thinking_id |-> thinking_id, user_message |-> user_message, cancelled |-> FALSE]
\* Dropping the handle of a task cancels it.
DropTask(t) == [t EXCEPT !.cancelled = TRUE]

\* Line 264: messages.retain(|m| m.id != thinking_id).
KeepOthers(msgs, thinking_id) ==
    LET Keep(m) == m.id # thinking_id IN SelectSeq(msgs, Keep)

\* iter_mut().find(|m| &m.id == message_id): the position of the first
\* message with the id, 0 when there is none.
FindMessage(msgs, id) ==
    IF \E k \in 1..Len(msgs) : msgs[k].id = id
    THEN CHOOSE k \in 1..Len(msgs) :
            msgs[k].id = id /\ \A j \in 1..(k - 1) : msgs[j].id # id
    ELSE 0

\* i32 addition: whether a + d leaves the i32 range, and its wrapped value.
Overflows(a, d) == (d > 0 /\ a > MaxI32 - d) \/ (d < 0 /\ a < MinI32 - d)
WrappingAdd(a, d) ==
    IF d > 0 /\ a > MaxI32 - d THEN (a - MaxI32 - 1) + (d - MaxI32 - 1)
    ELSE IF d < 0 /\ a < MinI32 - d THEN (a + MaxI32 + 1) + (d + MaxI32 + 1)
    ELSE a + d
MaxOf(a, b) == IF a >= b THEN a ELSE b
MinOf(a, b) == IF a <= b THEN a ELSE b

\* Line 205: (branch_index as i32 + direction).max(1).min(total_branches as i32).
NewIndex(branch_index, direction, total_branches) ==
    MinOf(MaxOf(WrappingAdd(branch_index, direction), 1), total_branches)

AreaCall(op, id, direction) == [op |-> op, id |-> id, direction |-> direction]
NoSteps == [n |-> 0, last |-> AreaCall("none", 0, 0)]
Step(call) == [n |-> steps.n + 1, last |-> call]

InitArea ==
    /\ CallIdle
    /\ CleanIdle
    /\ ExtractIdle
    /\ TwoIdle
    /\ ProxyIdle
    /\ ServerIdle
    /\ ServiceIdle
    /\ ItemsIdle
    /\ messages = <<>>
    /\ tasks = <<>>
    /\ next_uuid = 0
    /\ steps = NoSteps
    /\ overflow_checks \in BOOLEAN
    /\ panicked = FALSE

areaOthers == <<callVars, cleanVars, extractVars, twoVars, proxyVars, serverVars, serviceVars,
                itemsVars>>

\* Lines 222-272: send_message_and_get_ai_response(user_message).  The task
\* is spawned by `let _ = cx.spawn(..)`, which drops its handle at once.
SendMessageAndGetAiResponse(user_message) ==
    /\ ~panicked
    /\ steps.n < MaxAreaSteps
    /\ messages' = messages \o <<UserMessage(next_uuid + 1, user_message),
                                  ThinkingMessage(next_uuid + 2)>>
    /\ next_uuid' = next_uuid + 2
    /\ tasks' = Append(tasks, DropTask(SpawnedTask(next_uuid + 2, user_message)))
    /\ steps' = Step(AreaCall("SendMessage", 0, 0))
    /\ UNCHANGED <<overflow_checks, panicked, areaOthers>>

\* The foreground executor takes task k from its queue: a cancelled task
\* is dropped; a live one runs lines 249-270 after its sleep.
ExecutorRuns(k) ==
    /\ ~panicked
    /\ k \in 1..Len(tasks)
    /\ tasks' = SubSeq(tasks, 1, k - 1) \o SubSeq(tasks, k + 1, Len(tasks))
    /\ IF tasks[k].cancelled
       THEN UNCHANGED <<messages, next_uuid>>
       ELSE /\ messages' = Append(KeepOthers(messages, tasks[k].thinking_id),
                                  AssistantReply(next_uuid + 1, tasks[k].user_message))
            /\ next_uuid' = next_uuid + 1
    /\ UNCHANGED <<steps, overflow_checks, panicked, areaOthers>>

\* Lines 188-199: handle_action(EditMessage { message_id, new_content }).
EditMessage(message_id, new_content) ==
    /\ ~panicked
    /\ steps.n < MaxAreaSteps
    /\ steps' = Step(AreaCall("EditMessage", message_id, 0))
    /\ LET k == FindMessage(messages, message_id) IN
       IF k = 0 THEN UNCHANGED messages
       ELSE messages' = [messages EXCEPT ![k] =
                [@ EXCEPT !.total_branches = messages[k].total_branches + 1,
                          !.branch_index = messages[k].total_branches + 1,
                          !.content = <<new_content>>]]
    /\ UNCHANGED <<tasks, next_uuid, overflow_checks, panicked, areaOthers>>

\* Lines 200-209: handle_action(NavigateBranch { message_id, direction }).
NavigateBranch(message_id, direction) ==
    /\ ~panicked
    /\ steps.n < MaxAreaSteps
    /\ steps' = Step(AreaCall("NavigateBranch", message_id, direction))
    /\ LET k == FindMessage(messages, message_id) IN
       IF k = 0 THEN UNCHANGED <<messages, panicked>>
       ELSE IF overflow_checks /\ Overflows(messages[k].branch_index, direction)
       THEN /\ panicked' = TRUE
            /\ UNCHANGED messages
       ELSE /\ messages' = [messages EXCEPT ![k] =
                   [@ EXCEPT !.branch_index =
                       NewIndex(messages[k].branch_index, direction,
                                messages[k].total_branches)]]
            /\ UNCHANGED panicked
    /\ UNCHANGED <<tasks, next_uuid, overflow_checks, areaOthers>>

NextArea ==
    \/ \E t \in AreaTexts : SendMessageAndGetAiResponse(t)
    \/ \E k \in 1..MaxAreaSteps : ExecutorRuns(k)
    \/ \E id \in 0..(2 * MaxAreaSteps), t \in EditTexts : EditMessage(id, t)
    \/ \E id \in 0..(2 * MaxAreaSteps), d \in Directions : NavigateBranch(id, d)

SpecArea == InitArea /\ [][NextArea]_vars

(***************************************************************************)
(* Properties.                                                             *)
(***************************************************************************)
IsPrefix(s, t) == Len(s) <= Len(t) /\ SubSeq(t, 1, Len(s)) = s

\* A chunk decodes, cleans to a non-empty fragment and parses.
Contributes(c) ==
    /\ FromUtf8(c).ok
    /\ Clean(c) # <<>>
    /\ FromStr(Clean(c)).ok

\* The text extracted from a contributing chunk.
ExtractedText(c) ==
    LET parsed == FromStr(Clean(c)) IN
    IF IsSome(parsed.candidates) THEN PushCandidates(<<>>, Unwrap(parsed.candidates)) ELSE <<>>

RECURSIVE ConcatExtracted(_)
ConcatExtracted(chunks) ==
    IF chunks = <<>> THEN <<>>
    ELSE LET last == chunks[Len(chunks)] IN
         ConcatExtracted(SubSeq(chunks, 1, Len(chunks) - 1))
             \o (IF Contributes(last) THEN ExtractedText(last) ELSE <<>>)

\* C1: at every point of the call the output buffer is the concatenation, in
\* arrival order, of the text extracted from exactly the received chunks that
\* decoded, cleaned to a non-empty fragment and parsed; a step only ever
\* appends to the buffer.
C1_BufferIsConcatenation ==
    /\ [](output = ConcatExtracted(received))
    /\ [][IsPrefix(output, output')]_vars

C1_Witness ==
    /\ Len(received) = 3
    /\ received[1] = HelChunk
    /\ ~Contributes(received[2])
    /\ received[3] = LoChunk
    /\ output = Hello

(***************************************************************************)
(* The well-formed chunks of C2, described without the cleaning chain: one *)
(* response object with at most one framing character on each side, or     *)
(* framing characters only.  Whitespace around them is not significant.    *)
(***************************************************************************)
Leads == {<<>>, <<LBracket>>, <<Comma>>}
Trails == {<<>>, <<Comma>>, <<RBracket>>}

FramedValue(c, v) ==
    \E lead \in Leads, trail \in Trails :
        SelectSeq(c, NotWS) = lead \o ObjectText(v) \o trail

PunctuationOnly(c) ==
    \A i \in 1..Len(c) : c[i] \in {LBracket, Comma, RBracket, WS}

WellFormedChunk(c) ==
    \/ PunctuationOnly(c)
    \/ \E v \in ValueTokens : FramedValue(c, v)

\* Every present text of a value, candidate by candidate and part by part.
AllText(v) ==
    CASE v = "vHel" -> Hel
      [] v = "vLo" -> Lo
      [] v = "vX" -> <<"X">>
      [] v = "vMulti" -> <<"a", "b", "c">>

WellFormedText(c) ==
    IF PunctuationOnly(c) THEN <<>>
    ELSE AllText(CHOOSE v \in ValueTokens : FramedValue(c, v))

RECURSIVE ConcatAllText(_)
ConcatAllText(chunks) ==
    IF chunks = <<>> THEN <<>>
    ELSE WellFormedText(Head(chunks)) \o ConcatAllText(Tail(chunks))

\* C2: when the stream closes after delivering only well-formed chunks (one
\* response object with optional array framing, or punctuation only), the call
\* returns Ok with every present text in chunk arrival order; the stream
\* "[", Hel-object ",", lo-object, "]" returns "Hello".
C2_WellFormedStream ==
    /\ (upstream = "closed" /\ \A i \in 1..Len(received) : WellFormedChunk(received[i]))
          => (result.tag = "Ok" /\ result.value = ConcatAllText(received))
    /\ (upstream = "closed" /\ received = HelloStream)
          => result = Ok(Hello)

C2_Witness ==
    /\ upstream = "closed"
    /\ received = HelloStream
    /\ result = Ok(Hello)

(***************************************************************************)
(* The lifecycle state of the call.                                        *)
(***************************************************************************)
Phase ==
    IF pc = "returned" THEN (IF result.tag = "Ok" THEN "Done" ELSE "Failed")
    ELSE IF pc = "stream"
         THEN (IF received = <<>> THEN "AwaitingFirstChunk" ELSE "Streaming")
         ELSE "Init"

Rank(ph) ==
    CASE ph = "Init" -> 0
      [] ph = "AwaitingFirstChunk" -> 1
      [] ph = "Streaming" -> 2
      [] ph \in {"Done", "Failed"} -> 3

ClaimedEdges ==
    { <<"Init", "AwaitingFirstChunk">>, <<"AwaitingFirstChunk", "Streaming">>,
      <<"Streaming", "Done">>, <<"Init", "Failed">> }

ActualEdges ==
    ClaimedEdges \cup
    { <<"AwaitingFirstChunk", "Done">>, <<"AwaitingFirstChunk", "Failed">>,
      <<"Streaming", "Failed">> }

\* C3 as stated: the lifecycle changes only along Init -> AwaitingFirstChunk ->
\* Streaming -> Done or Init -> Failed, Failed is never entered after a chunk
\* has been received, and the request is issued once.
C3_ClaimedLifecycle ==
    [][ /\ (Phase' # Phase => <<Phase, Phase'>> \in ClaimedEdges)
        /\ (Phase' = "Failed" /\ Phase # "Failed" => received = <<>>)
        /\ (requests' # requests => requests = 0 /\ requests' = 1) ]_vars

\* C3 amended: the lifecycle changes only along Init -> AwaitingFirstChunk ->
\* Streaming -> Done, AwaitingFirstChunk -> Done, or into Failed from Init,
\* AwaitingFirstChunk or Streaming; no step goes back to an earlier state and
\* the request is issued once, while still in Init.
C3_Lifecycle ==
    [][ /\ (Phase' # Phase => <<Phase, Phase'>> \in ActualEdges)
        /\ Rank(Phase') >= Rank(Phase)
        /\ (requests' # requests => Phase = "Init" /\ requests = 0 /\ requests' = 1) ]_vars

C3_Witness ==
    /\ Phase = "Failed"
    /\ received # <<>>
    /\ upstream = "streamError"
    /\ requests = 1

\* C4: the call returns Ok(output buffer) exactly when the stream ended
\* cleanly; a credential failure or a transport failure (on send or from the
\* stream) is returned as that error without any text, and nothing is
\* processed after the call has returned.
C4_OkIffCleanEnd ==
    /\ [](pc = "returned" =>
            /\ (result.tag = "Ok" <=> upstream = "closed")
            /\ (result.tag = "Ok" => result.value = output)
            /\ (result.tag = "Err" => result.value = <<>>)
            /\ (upstream = "idle" => result.kind = "NotPresent")
            /\ (upstream \in {"sendError", "streamError"} => result.kind = "Transport"))
    /\ [](result.tag # "Pending" <=> pc = "returned")
    /\ [][pc # "returned"]_vars

C4_Witness ==
    /\ pc = "returned"
    /\ upstream = "streamError"
    /\ output # <<>>
    /\ result = Err("Transport", 0, "")

\* C5: after a 2xx status the call fails only on a stream transport error;
\* consuming a chunk never ends the call, a chunk that does not decode, clean
\* to a non-empty fragment or parse leaves the buffer as it was, and a clean
\* stream end returns Ok.
C5_ChunksNeverFail ==
    /\ [](status \in 200..299 /\ result.tag = "Err" => upstream = "streamError")
    /\ [](upstream = "closed" => result.tag = "Ok")
    /\ [][Len(received') > Len(received) =>
            /\ pc' = "stream"
            /\ result' = Pending
            /\ (~Contributes(received'[Len(received')]) => output' = output)]_vars

C5_Witness ==
    /\ upstream = "closed"
    /\ result.tag = "Ok"
    /\ \E i, j, k \in 1..Len(received) :
          /\ received[i] = BadUtf8
          /\ received[j] = OpenArray
          /\ received[k] = WrongShape

(***************************************************************************)
(* The cleaning chain stated on positions: how many matching symbols lead  *)
(* or trail a text, and the text without them.                             *)
(***************************************************************************)
LeadCount(s, c) ==
    CHOOSE n \in 0..Len(s) :
        /\ \A i \in 1..n : s[i] = c
        /\ (n = Len(s) \/ s[n + 1] # c)

TrailCount(s, c) ==
    CHOOSE n \in 0..Len(s) :
        /\ \A i \in 1..n : s[Len(s) + 1 - i] = c
        /\ (n = Len(s) \/ s[Len(s) - n] # c)

DropLeading(s, c) == SubSeq(s, LeadCount(s, c) + 1, Len(s))
DropTrailing(s, c) == SubSeq(s, 1, Len(s) - TrailCount(s, c))
DropSpace(s) == DropTrailing(DropLeading(s, WS), WS)

DropOneLeading(s, c) == IF s # <<>> /\ s[1] = c THEN SubSeq(s, 2, Len(s)) ELSE s
DropOneTrailing(s, c) == IF s # <<>> /\ s[Len(s)] = c THEN SubSeq(s, 1, Len(s) - 1) ELSE s

\* C6 as stated: cleaning removes surrounding whitespace, at most one leading
\* '[' and one leading ',', at most one trailing ']' and one trailing ',', then
\* surrounding whitespace; further punctuation stays in the fragment.
C6_ClaimedAtMostOne ==
    cleaned =>
        clean_text = DropSpace(DropOneTrailing(DropOneTrailing(
                        DropOneLeading(DropOneLeading(DropSpace(text), LBracket), Comma),
                        RBracket), Comma))

\* C6 amended: cleaning removes surrounding whitespace, every leading '[' and
\* then every leading ',', every trailing ']' and then every trailing ',', then
\* surrounding whitespace; "[[{...}]]" is reduced to the bare object.
C6_StripsEveryMatch ==
    cleaned =>
        /\ clean_text = DropSpace(DropTrailing(DropTrailing(
                           DropLeading(DropLeading(DropSpace(text), LBracket), Comma),
                           RBracket), Comma))
        /\ (text = <<LBracket, LBracket, LBrace, RBracket, RBracket>>
              => clean_text = <<LBrace>>)

C6_Witness ==
    /\ cleaned
    /\ text = <<LBracket, LBracket, LBrace, RBracket, RBracket>>
    /\ clean_text = <<LBrace>>

\* C7 as stated: for a non-2xx status the call returns an error carrying the
\* status and the response body, no chunk is consumed and no text is returned.
C7_ClaimedStatusAndBody ==
    (pc = "returned" /\ status # 0 /\ status \notin 200..299) =>
        /\ result = Err("RequestFailed", status, body)
        /\ received = <<>>

\* C7 amended: for a non-2xx status the call returns an error carrying the
\* status and the response body, or an empty text when the body cannot be
\* read; the byte stream is never opened, no chunk is consumed and no text is
\* returned.
C7_StatusAndBodyRead ==
    (status # 0 /\ status \notin 200..299) =>
        /\ pc \in {"text", "returned"}
        /\ received = <<>>
        /\ output = <<>>
        /\ (pc = "returned" =>
              result = Err("RequestFailed", status,
                           IF upstream = "bodyRead" THEN body ELSE ""))

C7_Witness ==
    /\ pc = "returned"
    /\ status = 401
    /\ upstream = "bodyRead"
    /\ result = Err("RequestFailed", 401, "API key not valid")

\* C8: with no credential argument and GEMINI_API_KEY not set, the call
\* returns the configuration error and never issues a request.
C8_MissingCredential ==
    (pc # "start" /\ api_key_opt = None /\ env_key = None) =>
        /\ pc = "returned"
        /\ result = Err("NotPresent", 0, "")
        /\ requests = 0
        /\ url_key = None
        /\ upstream = "idle"

C8_Witness ==
    /\ pc = "returned"
    /\ api_key_opt = None
    /\ env_key = None
    /\ result.kind = "NotPresent"
    /\ requests = 0

\* C9: the key in the request URL is the argument whenever one is supplied,
\* whatever the environment holds, and the environment variable's value only
\* when no argument is supplied; with neither, the error is returned without a
\* request and nothing happens afterwards.
C9_CredentialOrder ==
    /\ [](pc # "start" /\ api_key_opt # None => requests = 1 /\ url_key = api_key_opt)
    /\ [](pc # "start" /\ api_key_opt = None /\ env_key # None
            => requests = 1 /\ url_key = env_key)
    /\ [](result.kind = "NotPresent" => requests = 0 /\ url_key = None)
    /\ [][result.kind # "NotPresent"]_vars

C9_Witness ==
    /\ api_key_opt = "argkey"
    /\ env_key = "envkey"
    /\ url_key = "argkey"
    /\ requests = 1
    /\ pc = "stream"

\* The chunks of a stream without the two at positions i and i + 1.
WithoutPair(chunks, i) ==
    SubSeq(chunks, 1, i - 1) \o SubSeq(chunks, i + 2, Len(chunks))

\* C10: when one object arrives split over two consecutive chunks, neither
\* half adds text and the halves are not joined: the buffer is what the other
\* chunks alone give, and the split object's text "X" never reaches it.
C10_SplitObjectDropped ==
    /\ \A i \in 1..(Len(received) - 1) :
          (received[i] = HalfLeft /\ received[i + 1] = HalfRight)
             => output = ConcatExtracted(WithoutPair(received, i))
    /\ \A k \in 1..Len(output) : output[k] # "X"

C10_Witness ==
    /\ upstream = "closed"
    /\ received = <<HelChunk, HalfLeft, HalfRight, LoChunk>>
    /\ result = Ok(Hello)

HasInvalidByte(c) == \E i \in 1..Len(c) : c[i] = InvalidByte

\* C11: when the stream closes after a chunk that is not valid UTF-8 arrived
\* between two valid single-object chunks, the call returns the first chunk's
\* text followed by the second chunk's text.
C11_InvalidUtf8Between ==
    \A v \in ValueTokens, w \in ValueTokens :
        ( /\ upstream = "closed"
          /\ Len(received) = 3
          /\ FramedValue(received[1], v)
          /\ HasInvalidByte(received[2])
          /\ FramedValue(received[3], w) )
        => result = Ok(AllText(v) \o AllText(w))

C11_Witness ==
    /\ upstream = "closed"
    /\ received = <<HelChunk, BadUtf8, LoChunk>>
    /\ result = Ok(Hello)

\* C15: one call issues at most one HTTP request: the request counter never
\* exceeds one and only ever changes from zero to one, whatever fails.
C15_SingleRequest ==
    /\ [](requests <= 1)
    /\ [][requests' # requests => requests = 0 /\ requests' = 1]_vars
    /\ [](upstream # "idle" => requests = 1)

C15_Witness ==
    /\ pc = "returned"
    /\ upstream = "sendError"
    /\ requests = 1
    /\ result.kind = "Transport"

PartText(p) == IF p.text = <<>> THEN <<>> ELSE p.text[1]

RECURSIVE PartsText(_)
PartsText(ps) ==
    IF Len(ps) = 0 THEN <<>>
    ELSE PartsText(SubSeq(ps, 1, Len(ps) - 1)) \o PartText(ps[Len(ps)])

CandidateText(c) ==
    IF c.content = <<>> THEN <<>>
    ELSE IF c.content[1].parts = <<>> THEN <<>>
    ELSE PartsText(c.content[1].parts[1])

RECURSIVE CandidatesText(_)
CandidatesText(cs) ==
    IF Len(cs) = 0 THEN <<>>
    ELSE CandidatesText(SubSeq(cs, 1, Len(cs) - 1)) \o CandidateText(cs[Len(cs)])

PresentText(r) == IF r.candidates = <<>> THEN <<>> ELSE CandidatesText(r.candidates[1])

\* C13: extraction appends to the buffer, candidate by candidate and part by
\* part in list order, every text that is present; an absent candidates list,
\* content, parts list or text adds nothing and the rest is still extracted.
C13_ExtractsPresentText ==
    [][(extracted' /\ ~extracted) => buffer' = buffer \o PresentText(response)]_vars

C13_Witness ==
    /\ extracted
    /\ response = [candidates |-> Some(<< WithParts(<< NoTextPart, TextPart(<<"a">>) >>),
                                         NoContent >>)]
    /\ buffer = <<"z", "a">>

(***************************************************************************)
(* What a call returns when it runs alone: computed from its argument, the *)
(* environment and .env file the process started with, and what its own    *)
(* upstream did.                                                           *)
(***************************************************************************)
RECURSIVE SoloOutput(_)
SoloOutput(chunks) ==
    IF chunks = <<>> THEN <<>>
    ELSE ProcessChunk(SoloOutput(SubSeq(chunks, 1, Len(chunks) - 1)), chunks[Len(chunks)])

SoloKey(c) == IF c.arg # None THEN c.arg
              ELSE IF proc.env0 # None THEN proc.env0 ELSE proc.file

SoloResult(c) ==
    IF SoloKey(c) = None THEN Err("NotPresent", 0, "")
    ELSE CASE c.upstream = "sendError" -> Err("Transport", 0, "")
           [] c.upstream = "bodyRead" -> Err("RequestFailed", c.status, c.body)
           [] c.upstream = "bodyError" -> Err("RequestFailed", c.status, "")
           [] c.upstream = "streamError" -> Err("Transport", 0, "")
           [] c.upstream = "closed" -> Ok(SoloOutput(c.received))

\* C14: with two calls interleaved in any order, each call's buffer, URL key
\* and result are what the call produces alone on its own argument and chunk
\* stream, and a step of one call changes nothing of the other call.
C14_CallsIndependent ==
    /\ [](\A i \in CallIds :
            /\ calls[i].output = SoloOutput(calls[i].received)
            /\ (calls[i].requests > 0 => calls[i].url_key = SoloKey(calls[i]))
            /\ (calls[i].pc = "returned" => calls[i].result = SoloResult(calls[i])))
    /\ [][\A i \in CallIds, j \in CallIds :
            (i # j /\ calls'[i] # calls[i]) => calls'[j] = calls[j]]_vars

C14_Witness ==
    /\ calls[1].arg = None
    /\ proc.env0 = None
    /\ calls[1].received = <<HelChunk, LoChunk>>
    /\ calls[2].received = <<LoChunk, HelChunk>>
    /\ calls[1].result = Ok(Hello)
    /\ calls[2].result = Ok(Lo \o Hel)

\* The await points of generate_content.
AwaitsHeaders == pc = "send"
AwaitsChunk == pc = "stream"
AwaitsErrorBody == pc = "text"

\* Every chunk is consumed in one step that leaves the call at the wait for
\* the next chunk.
ChunkHandledAtOnce ==
    [][received' # received =>
          /\ AwaitsChunk
          /\ AwaitsChunk'
          /\ Len(received') = Len(received) + 1]_vars

\* C16 as stated: the call eventually returns, and while it has not
\* returned it waits either for the response headers or for the next chunk.
C16_ClaimedWaitPoints ==
    /\ <>(pc = "returned")
    /\ ChunkHandledAtOnce
    /\ [](pc \notin {"start", "returned"} => AwaitsHeaders \/ AwaitsChunk)

\* C16: with a finite stream that is then closed or fails, the call
\* eventually returns; every chunk is handled in one step; the call waits
\* for the response headers, for the next chunk, or, after a non-2xx status,
\* for the body of the error response.
C16_ReturnsAndWaitPoints ==
    /\ <>(pc = "returned")
    /\ ChunkHandledAtOnce
    /\ [](pc \notin {"start", "returned"} =>
             \/ AwaitsHeaders /\ upstream = "requested"
             \/ AwaitsChunk /\ upstream = "responded" /\ status \in 200..299
             \/ AwaitsErrorBody /\ upstream = "responded" /\ status \notin 200..299)

C16_Witness ==
    /\ pc = "returned"
    /\ upstream = "closed"
    /\ Len(received) = MaxChunks
    /\ result = Ok(Hel \o Hel)

ProxyAnswered == proxy.pc = "answered" /\ proxy.up_status # 0

\* The answer to an upstream 2xx response whose body is JSON: 200 with the
\* same JSON value.
RelaysJson ==
    (ProxyAnswered /\ proxy.up_status \in 200..299 /\ proxy.up_read = "ok"
       /\ ParseJson(proxy.up_body) # <<>>)
        => /\ proxy.answer.status = 200
           /\ ParseJson(proxy.answer.body) = ParseJson(proxy.up_body)

HealthRequested ==
    /\ server.handled
    /\ server.read > 0
    /\ Len(server.request) >= 2
    /\ server.request[2] = HealthTarget

\* C18: every request whose path is exactly /health is answered with 200
\* and the body OK, whatever the static root and the files under it are, and
\* no path is looked up in the file system for it.
C18_HealthAlwaysOk ==
    HealthRequested =>
        /\ server.response = HealthOk
        /\ server.lookups = <<>>

C18_Witness ==
    /\ HealthRequested
    /\ server.request[1] = <<"POST">>
    /\ <<"health">> \in server.locked
    /\ server.static_root = "/srv/www"
    /\ server.response = HealthOk

\* C19: at most one API call is in flight, is_processing is true exactly
\* while one is, and a process_message call made while is_processing is true
\* emits nothing, adds nothing to the history, does not advance
\* next_message_id and spawns no task.
C19_OneRequestAtATime ==
    /\ [](Len(in_flight) <= 1)
    /\ [](is_processing <=> Len(in_flight) = 1)
    /\ [][(is_processing /\ invocations' # invocations) =>
            UNCHANGED <<is_processing, events, conversation_history, next_message_id,
                        in_flight>>]_vars

C19_Witness ==
    /\ invocations = 2
    /\ is_processing
    /\ events = <<Processing>>
    /\ Len(conversation_history) = 1
    /\ next_message_id = 1
    /\ Len(in_flight) = 1

IsTerminal(e) == e.tag \in {"AssistantMessage", "Error"}

Distinct(q) == \A a \in 1..Len(q), b \in 1..Len(q) : a # b => q[a] # q[b]

\* C21: the id of a create response is one more than the largest stored id
\* (1 for an empty store) and is not a key of the store, so the insert
\* overwrites nothing and the other items stay; the new item has
\* completed = false; responses of creates without a delete carry different
\* ids; every key is the id of the item stored under it.
C21_CreateAssignsFreshId ==
    /\ [](\A k \in DOMAIN items : items[k].id = k)
    /\ [](removed = 0 => Distinct(created))
    /\ [][created' # created =>
            LET id == created'[Len(created')] IN
            /\ id \notin DOMAIN items
            /\ \A k \in DOMAIN items : k < id
            /\ (DOMAIN items = {} => id = 1)
            /\ DOMAIN items' = DOMAIN items \cup {id}
            /\ \A k \in DOMAIN items : items'[k] = items[k]
            /\ items'[id].completed = FALSE
            /\ last_response' = HttpResponse("create", id, NoPayload, 201, {items'[id]})]_vars

C21_Witness ==
    /\ created = <<1, 2, 3>>
    /\ DOMAIN items = {1, 2, 3}
    /\ items[1].name = "a"
    /\ items[2].name = "b"
    /\ clients[2].pc = "computed"
    /\ clients[2].id = 4

Answered(op) == handled' = handled + 1 /\ last_response'.op = op

\* C22: update_item on a stored id replaces the name when the payload has
\* one and completed when the payload has one, keeps the other field, the id
\* and every other item, and answers 200 with the item as stored afterwards;
\* with an empty payload the store is unchanged.
C22_UpdateChangesGivenFields ==
    [][(Answered("update") /\ last_response'.id \in DOMAIN items) =>
          LET id == last_response'.id
              payload == last_response'.payload
          IN /\ DOMAIN items' = DOMAIN items
             /\ \A k \in DOMAIN items : k # id => items'[k] = items[k]
             /\ items'[id].id = id
             /\ items'[id].name = IF payload.name = <<>> THEN items[id].name
                                  ELSE payload.name[1]
             /\ items'[id].completed = IF payload.completed = <<>> THEN items[id].completed
                                       ELSE payload.completed[1]
             /\ (payload = NoPayload => items' = items)
             /\ last_response'.status = 200
             /\ last_response'.body = {items'[id]}]_vars

C22_Witness ==
    /\ last_response.op = "update"
    /\ last_response.id = 1
    /\ last_response.payload = [name |-> <<>>, completed |-> <<TRUE>>]
    /\ DOMAIN items = {1, 2}
    /\ items[1] = Item(1, "a", TRUE)
    /\ items[2] = Item(2, "a", FALSE)

Unchanged404(op) ==
    (Answered(op) /\ last_response'.id \notin DOMAIN items)
        => /\ last_response'.status = 404
           /\ last_response'.body = {}
           /\ items' = items

\* C23: get_item, update_item and delete_item on an id that is not stored
\* answer 404 and leave the store as it is; delete_item on a stored id
\* answers 204 and removes that item only; get_item answers 200 exactly for
\* the stored ids, and an id enters the store only through a create.
C23_NotFoundAndDelete ==
    /\ [][Unchanged404("get")]_vars
    /\ [][Unchanged404("update")]_vars
    /\ [][Unchanged404("delete")]_vars
    /\ [][(Answered("delete") /\ last_response'.id \in DOMAIN items) =>
            /\ last_response'.status = 204
            /\ DOMAIN items' = DOMAIN items \ {last_response'.id}
            /\ \A k \in DOMAIN items' : items'[k] = items[k]]_vars
    /\ [][Answered("get") =>
            /\ items' = items
            /\ last_response'.status =
                  IF last_response'.id \in DOMAIN items THEN 200 ELSE 404]_vars
    /\ [][(DOMAIN items' \ DOMAIN items # {}) => created' # created]_vars

C23_Witness ==
    /\ removed = 1
    /\ created = <<1, 2>>
    /\ DOMAIN items = {1}
    /\ last_response = HttpResponse("get", 2, NoPayload, 404, {})

ThinkingCount == Cardinality({k \in 1..Len(messages) : messages[k].is_thinking})
\* The responses still pending: the spawned tasks that will run.
PendingCount == Cardinality({k \in 1..Len(tasks) : ~tasks[k].cancelled})

\* C24 as stated: a send appends the user message and one thinking
\* placeholder, and the number of thinking placeholders in the list always
\* equals the number of responses still pending.
C24_ClaimedPlaceholders ==
    /\ [][(steps' # steps /\ steps'.last.op = "SendMessage") =>
            /\ Len(messages') = Len(messages) + 2
            /\ messages'[Len(messages') - 1].is_user
            /\ messages'[Len(messages')].is_thinking]_vars
    /\ [](ThinkingCount = PendingCount)

\* The calls made so far end with a NavigateBranch or EditMessage on a
\* message of the list.
LastCall == steps'.last
Called(op) == steps' # steps /\ LastCall.op = op
Clamped(branch_index, direction, total_branches) ==
    IF direction >= total_branches - branch_index THEN total_branches
    ELSE IF direction <= 1 - branch_index THEN 1
    ELSE branch_index + direction

\* C25 as stated: 1 <= branch_index <= total_branches for every message;
\* EditMessage adds a branch and selects it; NavigateBranch moves the index
\* by the direction, clamped into [1, total_branches]; an action naming an
\* unknown id changes nothing.
C25_ClaimedBranchIndex ==
    /\ [](\A k \in 1..Len(messages) :
            1 <= messages[k].branch_index
            /\ messages[k].branch_index <= messages[k].total_branches)
    /\ [][(Called("EditMessage") /\ FindMessage(messages, LastCall.id) # 0) =>
            LET k == FindMessage(messages, LastCall.id) IN
            /\ messages'[k].total_branches = messages[k].total_branches + 1
            /\ messages'[k].branch_index = messages'[k].total_branches]_vars
    /\ [][(Called("NavigateBranch") /\ FindMessage(messages, LastCall.id) # 0) =>
            LET k == FindMessage(messages, LastCall.id) IN
            /\ ~panicked'
            /\ messages'[k].branch_index =
                  Clamped(messages[k].branch_index, LastCall.direction,
                          messages[k].total_branches)]_vars
    /\ [][((Called("EditMessage") \/ Called("NavigateBranch"))
             /\ FindMessage(messages, LastCall.id) = 0) => messages' = messages]_vars

SameRoleTwice(role) ==
    \E k \in 1..(Len(conversation_history) - 1) :
        /\ conversation_history[k].role = role
        /\ conversation_history[k + 1].role = role
BeginsWith(h, role) == h # <<>> /\ h[1].role = role
RequestFailed == \E k \in 1..Len(events) : events[k] = Error(ApiErrorText)

\* C26 as stated: conversation_history never holds two consecutive messages
\* of the same role and, when it is not empty, begins with a User message.
C26_ClaimedAlternation ==
    /\ ~SameRoleTwice("User")
    /\ ~SameRoleTwice("Assistant")
    /\ (conversation_history # <<>> => BeginsWith(conversation_history, "User"))

\* C26: conversation_history never holds two consecutive Assistant
\* messages and its ids increase; it holds two consecutive User messages only
\* after a request has failed; it comes to begin with an Assistant message
\* only when a request succeeds after clear_history has emptied the history
\* during that request.
C26_AlternatesUnlessFailedOrCleared ==
    /\ [](~SameRoleTwice("Assistant"))
    /\ [](\A k \in 1..(Len(conversation_history) - 1) :
            conversation_history[k].id < conversation_history[k + 1].id)
    /\ [](SameRoleTwice("User") => RequestFailed)
    /\ [][(BeginsWith(conversation_history', "Assistant")
             /\ ~BeginsWith(conversation_history, "Assistant"))
          => (conversation_history = <<>> /\ is_processing /\ ~is_processing')]_vars

C26_Witness ==
    /\ events = <<Processing, Error(ApiErrorText), Processing>>
    /\ Len(conversation_history) = 2
    /\ conversation_history[1].role = "User"
    /\ conversation_history[2].role = "User"
    /\ is_processing

====
